---------------------------- MODULE Spec2Model ----------------------------
(***************************************************************************)
(* Model of streamlit_app.py: the credential resolver, the two memoized    *)
(* OpenWeather fetchers and the render pass of main().                     *)
(*                                                                         *)
(* Python values are tagged records:                                       *)
(*   None          [t |-> "None"]                                          *)
(*   int / float   [t |-> "num", float |-> BOOLEAN, tenths |-> Int]        *)
(*   str           [t |-> "str", s |-> sequence of non-empty chunks]       *)
(*   list          [t |-> "list", items |-> sequence of values]            *)
(*   dict          [t |-> "dict", f |-> function from the keys the dict    *)
(*                  holds to their values]                                 *)
(* A Python str is the concatenation of its chunks; an f-string is the     *)
(* concatenation of its literal chunks and of str() of its fields.         *)
(* TLA+ strings are ASCII here: the em dash U+2014, the degree sign U+00B0 *)
(* and the Russian literals of the source are written transliterated, each *)
(* by a definition that names the source literal.                          *)
(***************************************************************************)
EXTENDS Integers, Sequences, FiniteSets, Bags, TLC

(* ------------------------------ bounds -------------------------------- *)

\* Longest forecast entry list the forecast endpoint answers with.
MaxEntries == 2

\* Render passes (script reruns) of one server process.
MaxPasses == 2

(* --------------------------- Python values ---------------------------- *)

None == [t |-> "None"]

PyInt(i) == [t |-> "num", float |-> FALSE, tenths |-> 10 * i]

PyFloat(k) == [t |-> "num", float |-> TRUE, tenths |-> k]

PyStrOf(chunks) == [t |-> "str", s |-> chunks]

PyList(items) == [t |-> "list", items |-> items]

PyDict(f) == [t |-> "dict", f |-> f]

IsNone(v) == v.t = "None"

IsDict(v) == v.t = "dict"

IsList(v) == v.t = "list"

\* Keys in the order the API documents them (dict insertion order).
KeyOrder ==
  << "cod", "message", "name", "sys", "country", "weather", "description",
     "icon", "main", "temp", "feels_like", "humidity", "wind", "speed",
     "list", "dt", "dt_txt" >>

HasKey(d, k) == k \in DOMAIN d.f

\* bool(v): None, 0, 0.0, "", [] and {} are falsy.
Truthy(v) ==
  CASE v.t = "None" -> FALSE
    [] v.t = "num"  -> v.tenths # 0
    [] v.t = "str"  -> Len(v.s) > 0
    [] v.t = "list" -> Len(v.items) > 0
    [] v.t = "dict" -> DOMAIN v.f # { }
    [] OTHER        -> TRUE

\* d.get(k, default) on a dict.
Get(d, k, default) == IF HasKey(d, k) THEN d.f[k] ELSE default

Digits == << "0", "1", "2", "3", "4", "5", "6", "7", "8", "9" >>

RECURSIVE NatDigits(_)
NatDigits(n) ==
  IF n < 10 THEN << Digits[n + 1] >>
  ELSE NatDigits(n \div 10) \o << Digits[(n % 10) + 1] >>

Abs(n) == IF n < 0 THEN -n ELSE n

\* str() of an int or of a float with one decimal digit.
NumStr(v) ==
  (IF v.tenths < 0 THEN << "-" >> ELSE << >>)
    \o NatDigits(Abs(v.tenths) \div 10)
    \o (IF v.float THEN << ".", Digits[(Abs(v.tenths) % 10) + 1] >> ELSE << >>)

RECURSIVE PyRepr(_)
RECURSIVE ReprItems(_, _, _)
\* The items of repr(dict), keys from position i of KeyOrder on.
ReprItems(d, i, first) ==
  IF i > Len(KeyOrder) THEN << >>
  ELSE IF HasKey(d, KeyOrder[i])
       THEN (IF first THEN << >> ELSE << ", " >>)
              \o << "'", KeyOrder[i], "'", ": " >> \o PyRepr(d.f[KeyOrder[i]])
              \o ReprItems(d, i + 1, FALSE)
       ELSE ReprItems(d, i + 1, first)

RECURSIVE ReprList(_, _)
ReprList(items, i) ==
  IF i > Len(items) THEN << >>
  ELSE (IF i = 1 THEN << >> ELSE << ", " >>) \o PyRepr(items[i])
         \o ReprList(items, i + 1)

\* repr(v), which is what str() of a dict or list shows of its elements.
PyRepr(v) ==
  CASE v.t = "None" -> << "None" >>
    [] v.t = "num"  -> NumStr(v)
    [] v.t = "str"  -> << "'" >> \o v.s \o << "'" >>
    [] v.t = "list" -> << "[" >> \o ReprList(v.items, 1) \o << "]" >>
    [] v.t = "dict" -> << "{" >> \o ReprItems(v, 1, TRUE) \o << "}" >>

\* str(v), as an f-string field formats it.
PyStr(v) == IF v.t = "str" THEN v.s ELSE PyRepr(v)

(* ---------------------------- HTTP responses --------------------------- *)

\* A body is either text that is not JSON, or the text of a JSON value.
InvalidBody(text) == [b |-> "invalid", text |-> text]

JsonBody(val) == [b |-> "json", val |-> val]

RECURSIVE JsonDumps(_)
RECURSIVE DumpItems(_, _, _)
DumpItems(d, i, first) ==
  IF i > Len(KeyOrder) THEN << >>
  ELSE IF HasKey(d, KeyOrder[i])
       THEN (IF first THEN << >> ELSE << "," >>)
              \o << "\"", KeyOrder[i], "\"", ":" >> \o JsonDumps(d.f[KeyOrder[i]])
              \o DumpItems(d, i + 1, FALSE)
       ELSE DumpItems(d, i + 1, first)

RECURSIVE DumpList(_, _)
DumpList(items, i) ==
  IF i > Len(items) THEN << >>
  ELSE (IF i = 1 THEN << >> ELSE << "," >>) \o JsonDumps(items[i])
         \o DumpList(items, i + 1)

\* The JSON text of a value: what the server put on the wire.
JsonDumps(v) ==
  CASE v.t = "None" -> << "null" >>
    [] v.t = "num"  -> NumStr(v)
    [] v.t = "str"  -> << "\"" >> \o v.s \o << "\"" >>
    [] v.t = "list" -> << "[" >> \o DumpList(v.items, 1) \o << "]" >>
    [] v.t = "dict" -> << "{" >> \o DumpItems(v, 1, TRUE) \o << "}" >>

\* response.text
ResponseText(resp) ==
  IF resp.body.b = "invalid" THEN PyStrOf(resp.body.text)
  ELSE PyStrOf(JsonDumps(resp.body.val))

\* requests.get either raises a RequestException or returns a response.
TransportFailure(exc) == [r |-> "fail", exc |-> exc]

HttpResponse(status, body) == [r |-> "http", status |-> status, body |-> body]

\* What a fetcher call ends with: a returned pair, or an exception that
\* leaves the function.
Return(p, e) == [kind |-> "return", payload |-> p, error |-> e]

Raise(exc) == [kind |-> "raise", exc |-> exc]


(* ------------------------------ fetchers ------------------------------- *)

\* str(exc) of the RequestException that requests.get raised.
ExcStr(exc) == << exc >>

NetworkError(details) == PyStrOf(<< "Network error: " >> \o details)

HttpError(status, message) ==
  PyStrOf(<< "HTTP " >> \o NatDigits(status) \o << ": " >> \o PyStr(message))

EmptyForecastError == PyStrOf(<< "Empty forecast list from API" >>)

\* Lines 24-25 and 74-75: a RequestException becomes a returned message.
OnRequestExceptionPropagates(details) == { Raise("RequestException") }

OnRequestException(details) == { Return(None, NetworkError(details)) }

\* The message of every non-200 response taken from the raw text.
ErrorMessageRawText(resp) == ResponseText(resp)

\* Lines 18-22 and 34-38: the message of a non-200 response.  A body that is
\* not JSON makes response.json() raise, and a JSON body that is no object
\* makes err_json.get raise AttributeError; both are caught by
\* `except Exception` and leave the raw response text.
ErrorMessage(resp) ==
  IF resp.body.b = "invalid" \/ ~IsDict(resp.body.val)
  THEN ResponseText(resp)
  ELSE LET m == Get(resp.body.val, "message", None)
       IN  IF Truthy(m) THEN m ELSE PyStrOf(PyRepr(resp.body.val))

\* response.json() on a body that is not JSON raises JSONDecodeError.  Since
\* requests 2.27 that class derives from RequestException, so the fetcher's
\* handler catches it; before, it is a plain ValueError and leaves the
\* fetcher.  The source pins no version: both outcomes are possible.
JsonDecodeFailure ==
  OnRequestException(<< "JSONDecodeError" >>) \cup { Raise("JSONDecodeError") }

\* fetch_current_weather (the body, without the cache): the set of outcomes
\* the call can end with for the response that requests.get produced.
fetch_current_weather(resp) ==
  IF resp.r = "fail" THEN OnRequestException(ExcStr(resp.exc))
  ELSE IF resp.status = 200
       THEN IF resp.body.b = "invalid" THEN JsonDecodeFailure
            ELSE { Return(resp.body.val, None) }
       ELSE { Return(None, HttpError(resp.status, ErrorMessage(resp))) }

(* ------------------------ forecast normalization ----------------------- *)

NaN == [t |-> "NaN"]

\* pd.to_datetime(x, unit="s")
Timestamp(v) == IF v.t = "num" THEN [t |-> "timestamp", epoch |-> v.tenths \div 10] ELSE NaN

\* add_prefix: the column name of key k of the sub-object named prefix.
Prefixed(prefix, k) ==
  CASE prefix = "main" /\ k = "temp"              -> "main.temp"
    [] prefix = "main" /\ k = "feels_like"        -> "main.feels_like"
    [] prefix = "main" /\ k = "humidity"          -> "main.humidity"
    [] prefix = "wind" /\ k = "speed"             -> "wind.speed"
    [] prefix = "weather" /\ k = "description"    -> "weather.description"
    [] prefix = "weather" /\ k = "icon"           -> "weather.icon"
    [] OTHER                                      -> "other"

SubKeys(prefix) ==
  CASE prefix = "main"    -> { "temp", "feels_like", "humidity" }
    [] prefix = "wind"    -> { "speed" }
    [] prefix = "weather" -> { "description", "icon" }

\* pd.DataFrame(list_items): a column per key that some entry holds.
FrameHasColumn(items, k) == \E i \in 1..Len(items) : IsDict(items[i]) /\ HasKey(items[i], k)

\* df[k]: the cell of each row, NaN where the entry does not hold the key.
FrameColumn(items, k) ==
  [i \in 1..Len(items) |->
     IF IsDict(items[i]) /\ HasKey(items[i], k) THEN items[i].f[k] ELSE NaN]

\* Line 48: the first element of a non-empty list, else {}.
EmptyDict == PyDict([k \in { } |-> None])

WeatherMain(x) == IF IsList(x) /\ Len(x.items) > 0 THEN x.items[1] ELSE EmptyDict

\* pd.json_normalize(cells).add_prefix(prefix + "."): the columns are the keys
\* some dict cell holds.
NormalizedColumns(cells, prefix) ==
  { Prefixed(prefix, k) : k \in { k \in SubKeys(prefix) :
       \E i \in 1..Len(cells) : IsDict(cells[i]) /\ HasKey(cells[i], k) } }

NormalizedCell(cell, prefix, col) ==
  LET ks == { k \in SubKeys(prefix) : Prefixed(prefix, k) = col }
  IN  IF IsDict(cell) /\ \E k \in ks : HasKey(cell, k)
      THEN cell.f[CHOOSE k \in ks : HasKey(cell, k)]
      ELSE NaN

\* A cell that is no dict (null, or NaN where the entry lacks the key): the
\* fast path of json_normalize (pandas >= 1.3) turns it into an empty row,
\* earlier versions raise AttributeError on it.
HasNonDictCell(cells) == \E i \in 1..Len(cells) : ~IsDict(cells[i])

GuaranteedColumns ==
  { "main.temp", "main.feels_like", "main.humidity", "wind.speed",
    "weather.description" }

\* Lines 63-71: the default a guaranteed column gets when it is missing.
ColumnDefault(col) == IF col = "weather.description" THEN PyStrOf(<< >>) ELSE None

\* Lines 45-73 on a non-empty list of entries: the table, columns and rows.
NormalizedTable(items) ==
  LET mainCells    == FrameColumn(items, "main")
      windCells    == FrameColumn(items, "wind")
      weatherCells == [i \in 1..Len(items) |-> WeatherMain(FrameColumn(items, "weather")[i])]
      mainCols     == NormalizedColumns(mainCells, "main")
      windCols     == NormalizedColumns(windCells, "wind")
      weatherCols  == NormalizedColumns(weatherCells, "weather")
      cols         == { "dt", "dt_txt" } \cup mainCols \cup windCols \cup weatherCols
                        \cup GuaranteedColumns
      Cell(i, c)   ==
        CASE c = "dt"             -> Timestamp(FrameColumn(items, "dt")[i])
          [] c = "dt_txt"         -> FrameColumn(items, "dt_txt")[i]
          [] c \in mainCols       -> NormalizedCell(mainCells[i], "main", c)
          [] c \in windCols       -> NormalizedCell(windCells[i], "wind", c)
          [] c \in weatherCols    -> NormalizedCell(weatherCells[i], "weather", c)
          [] OTHER                -> ColumnDefault(c)
  IN  [t |-> "table", columns |-> cols,
       rows |-> [i \in 1..Len(items) |-> [c \in cols |-> Cell(i, c)]]]

\* The columns df[...] is indexed with, in the order lines 46-55 read them:
\* a missing one raises KeyError, which the fetcher does not catch.
IndexedColumns == << "main", "wind", "weather", "dt", "dt_txt" >>

MissingIndexedColumn(items) ==
  \E n \in 1..Len(IndexedColumns) : ~FrameHasColumn(items, IndexedColumns[n])

\* Lines 45-73: the outcomes of normalizing a truthy `list` value.
NormalizeForecast(list_items) ==
  IF ~IsList(list_items) THEN { Raise("ValueError") }
  ELSE IF MissingIndexedColumn(list_items.items) THEN { Raise("KeyError") }
  ELSE { Return(NormalizedTable(list_items.items), None) }
         \cup (IF HasNonDictCell(FrameColumn(list_items.items, "main"))
                  \/ HasNonDictCell(FrameColumn(list_items.items, "wind"))
                  \/ \E i \in 1..Len(list_items.items) :
                       ~IsDict(WeatherMain(FrameColumn(list_items.items, "weather")[i]))
               THEN { Raise("AttributeError") } ELSE { })

\* `if list_items is None` in the place of line 42.
ListIsNone(list_items) == IsNone(list_items)

\* The test of line 42, `if not list_items`.
ListIsEmpty(list_items) == ~Truthy(list_items)

\* fetch_forecast (the body, without the cache).
fetch_forecast(resp) ==
  IF resp.r = "fail" THEN OnRequestException(ExcStr(resp.exc))
  ELSE IF resp.status # 200
       THEN { Return(None, HttpError(resp.status, ErrorMessage(resp))) }
       ELSE IF resp.body.b = "invalid" THEN JsonDecodeFailure
            ELSE IF ~IsDict(resp.body.val) THEN { Raise("AttributeError") }
            ELSE LET list_items == Get(resp.body.val, "list", PyList(<< >>))
                 IN  IF ListIsEmpty(list_items)
                     THEN { Return(None, EmptyForecastError) }
                     ELSE NormalizeForecast(list_items)

(* --------------------------- credential resolver ----------------------- *)

\* st.secrets.get raised (no secrets file, for one).
SecretsRaises == [t |-> "raises"]

\* The sidebar text input is not part of the page.
NotShown == [t |-> "notshown"]

\* Lines 81-86: the key the secrets store yields; a lookup that raises
\* leaves None.
SecretsLookup(secretsValue) == IF secretsValue = SecretsRaises THEN None ELSE secretsValue

\* The environment variable read whatever the secrets store yielded.
ReadsEnvAlways(afterSecrets) == TRUE

\* Line 88: whether the environment variable is read.
ReadsEnv(afterSecrets) == ~Truthy(afterSecrets)

\* Line 91: whether the masked text input is shown and read.
ReadsUi(afterEnv) == ~Truthy(afterEnv)

\* get_api_key_from_env_or_ui: the returned pair and the sources it read, in
\* order.  uiValue is what the text input holds if it is shown.
get_api_key_from_env_or_ui(secretsValue, envValue, uiValue) ==
  LET k1 == SecretsLookup(secretsValue)
      k2 == IF ReadsEnv(k1) THEN envValue ELSE k1
      k3 == IF ReadsUi(k2) THEN uiValue ELSE k2
  IN  [api_key      |-> k3,
       from_secrets |-> Truthy(k1),
       consulted    |-> << "secrets" >>
                          \o (IF ReadsEnv(k1) THEN << "env" >> ELSE << >>)
                          \o (IF ReadsUi(k2) THEN << "ui" >> ELSE << >>)]

(* ------------------------------ rendering ------------------------------ *)

\* The source's non-ASCII literals.
EmDash == "--"                              \* U+2014
DegC == "(deg)C"                            \* U+00B0 C
DegF == "(deg)F"                            \* U+00B0 F
MetresPerSecond == "m/s (cyr)"              \* the Cyrillic m/s of line 142
FeelsLikeLabel == "Oshchushchaetsya kak "   \* line 144
HumidityLabel == "Vlazhnost': "             \* line 147
WindLabel == "Veter: "                      \* line 148

UnitsTemp(units_label) == IF units_label = "metric" THEN DegC ELSE DegF

UnitsWind(units_label) == IF units_label = "metric" THEN MetresPerSecond ELSE "mph"

\* A slot of a panel that nothing was written to.
Unrendered == [t |-> "unrendered"]

\* `if temp` in the place of `if temp is not None`.
IsTruthyValue(v) == Truthy(v)

\* The `is not None` tests of lines 144-148.
IsPresent(v) == ~IsNone(v)

\* Line 144, value=
MetricValue(temp, units_label) ==
  IF IsPresent(temp) THEN PyStrOf(PyStr(temp) \o << " ", UnitsTemp(units_label) >>)
  ELSE PyStrOf(<< EmDash >>)

\* Line 144, delta=
MetricDelta(feels, units_label) ==
  IF IsPresent(feels)
  THEN PyStrOf(<< FeelsLikeLabel >> \o PyStr(feels) \o << " ", UnitsTemp(units_label) >>)
  ELSE None

\* Line 147
HumidityLine(humidity) ==
  IF IsPresent(humidity) THEN PyStrOf(<< HumidityLabel >> \o PyStr(humidity) \o << "%" >>)
  ELSE PyStrOf(<< HumidityLabel, EmDash >>)

\* Line 148
WindLine(wind_speed, units_label) ==
  IF IsPresent(wind_speed)
  THEN PyStrOf(<< WindLabel >> \o PyStr(wind_speed) \o << " ", UnitsWind(units_label) >>)
  ELSE PyStrOf(<< WindLabel, EmDash >>)

\* str.capitalize() on the descriptions the API sends (lower case already):
\* the first character becomes upper case.
Capitalize(chunks) ==
  IF chunks = << >> THEN chunks
  ELSE << (CASE Head(chunks) = "clear sky"     -> "Clear sky"
             [] Head(chunks) = "light rain"    -> "Light rain"
             [] OTHER                          -> Head(chunks)) >> \o Tail(chunks)

BlankCurrentPanel ==
  [subheader |-> FALSE, error |-> FALSE, code |-> Unrendered, label |-> Unrendered,
   value |-> Unrendered, delta |-> Unrendered, humidity |-> Unrendered,
   wind |-> Unrendered, icon |-> Unrendered, caption |-> Unrendered]

CurrentHeader == [BlankCurrentPanel EXCEPT !.subheader = TRUE]

Rendered(panel, exc) == [panel |-> panel, exc |-> exc]

\* Lines 126-128 and 158-160: the error banner, and the diagnostic string if
\* there is one.
ErrorBanner(header, err) ==
  [header EXCEPT !.error = TRUE, !.code = IF Truthy(err) THEN err ELSE Unrendered]

\* format_location_block
format_location_block(current) ==
  LET name    == Get(current, "name", None)
      country == Get(Get(current, "sys", EmptyDict), "country", PyStrOf(<< >>))
  IN  IF Truthy(name) THEN PyStrOf(PyStr(name) \o << ", " >> \o PyStr(country))
      ELSE PyStrOf(<< EmDash >>)

\* Line 131
FirstWeather(current) ==
  LET w == Get(current, "weather", None)
      l == IF Truthy(w) THEN w ELSE PyList(<< EmptyDict >>)
  IN  IF IsList(l) THEN l.items[1] ELSE l

\* Lines 125-152: what the current-conditions column shows for the pair the
\* fetcher returned, and the exception that ends the pass, if one does
\* ("" when none).  A .get on a value that is no dict raises AttributeError,
\* and so does None.capitalize().
RenderCurrent(current, current_err, units_label) ==
  IF ~Truthy(current) THEN Rendered(ErrorBanner(CurrentHeader, current_err), "")
  ELSE IF ~IsDict(current) \/ ~IsDict(Get(current, "sys", EmptyDict))
  THEN Rendered(CurrentHeader, "AttributeError")
  ELSE IF ~IsList(IF Truthy(Get(current, "weather", None))
                  THEN Get(current, "weather", None) ELSE PyList(<< EmptyDict >>))
  THEN Rendered(CurrentHeader, "TypeError")
  ELSE
    LET weather == FirstWeather(current)
        main    == Get(current, "main", EmptyDict)
        wind    == Get(current, "wind", EmptyDict)
    IN  IF ~IsDict(weather) \/ ~IsDict(main) \/ ~IsDict(wind)
        THEN Rendered(CurrentHeader, "AttributeError")
        ELSE
          LET icon        == Get(weather, "icon", None)
              description == Get(weather, "description", PyStrOf(<< EmDash >>))
              shown ==
                [CurrentHeader EXCEPT
                   !.label    = format_location_block(current),
                   !.value    = MetricValue(Get(main, "temp", None), units_label),
                   !.delta    = MetricDelta(Get(main, "feels_like", None), units_label),
                   !.humidity = HumidityLine(Get(main, "humidity", None)),
                   !.wind     = WindLine(Get(wind, "speed", None), units_label),
                   !.icon     = IF Truthy(icon)
                                THEN PyStrOf(<< "https://openweathermap.org/img/wn/" >>
                                               \o PyStr(icon) \o << "@2x.png" >>)
                                ELSE Unrendered]
          IN  IF description.t # "str" THEN Rendered(shown, "AttributeError")
              ELSE Rendered([shown EXCEPT !.caption = PyStrOf(Capitalize(description.s))], "")

BlankForecastPanel ==
  [subheader |-> FALSE, error |-> FALSE, code |-> Unrendered,
   charts |-> << >>, table |-> << >>, rows |-> 0]

ForecastHeader == [BlankForecastPanel EXCEPT !.subheader = TRUE]

\* The y columns of the three charts, and display_cols of line 196.
ChartColumns == << "main.temp", "main.humidity", "wind.speed" >>

display_cols ==
  << "dt_txt", "main.temp", "main.feels_like", "main.humidity", "wind.speed",
     "weather.description" >>

Range(seq) == { seq[i] : i \in 1..Len(seq) }

\* Lines 157-207: what the forecast column shows.  A chart or the table over
\* a column the frame lacks raises.
RenderForecast(forecast_df, forecast_err) ==
  IF IsNone(forecast_df) \/ Len(forecast_df.rows) = 0
  THEN Rendered(ErrorBanner(ForecastHeader, forecast_err), "")
  ELSE IF ~((Range(ChartColumns) \cup { "dt" }) \subseteq forecast_df.columns)
  THEN Rendered(ForecastHeader, "ValueError")
  ELSE IF ~(Range(display_cols) \subseteq forecast_df.columns)
  THEN Rendered([ForecastHeader EXCEPT !.charts = ChartColumns], "KeyError")
  ELSE Rendered([ForecastHeader EXCEPT !.charts = ChartColumns, !.table = display_cols,
                                       !.rows = Len(forecast_df.rows)], "")

(* ------------------------------- inputs -------------------------------- *)

Str1(x) == PyStrOf(<< x >>)

RECURSIVE FieldsOver(_, _)
FieldsOver(keys, vals) ==
  IF keys = { } THEN { [k \in { } |-> None] }
  ELSE LET k    == CHOOSE x \in keys : TRUE
           rest == FieldsOver(keys \ { k }, vals)
       IN  rest \cup { (k :> v) @@ f : f \in rest, v \in vals[k] }

\* All dicts over a subset of `keys`, the value of key k drawn from vals[k].
DictsOver(keys, vals) == { PyDict(f) : f \in FieldsOver(keys, vals) }

Transports == { TransportFailure(e) : e \in { "ConnectionError", "ConnectTimeout", "ReadTimeout" } }

ErrorStatuses == { 401, 404, 500 }

\* Bodies of a response that is no weather payload.
ErrorBodies ==
  { InvalidBody(<< "<html>502 Bad Gateway</html>" >>), InvalidBody(<< >>) }
    \cup { JsonBody(v) : v \in { None, PyList(<< >>), Str1("oops") } }
    \cup { JsonBody(d) : d \in DictsOver({ "cod", "message" },
             [cod     |-> { Str1("404"), PyInt(404) },
              message |-> { None, PyStrOf(<< >>), Str1("city not found") }]) }

ErrorResponses == Transports \cup { HttpResponse(st, b) : st \in ErrorStatuses, b \in ErrorBodies }

\* The payload of the scenario: Almaty, metric, 21.5 degrees, 40 %, 3.2 m/s.
AlmatyPayload ==
  PyDict([name    |-> Str1("Almaty"),
          sys     |-> PyDict([country |-> Str1("KZ")]),
          weather |-> PyList(<< PyDict([description |-> Str1("clear sky"), icon |-> Str1("01d")]) >>),
          main    |-> PyDict([temp |-> PyFloat(215), feels_like |-> PyFloat(203), humidity |-> PyInt(40)]),
          wind    |-> PyDict([speed |-> PyFloat(32)])])

\* Current-weather payloads: each sub-object absent, null or present, each
\* numeric field absent, zero or non-zero.
MainObjects ==
  { None } \cup DictsOver({ "temp", "feels_like", "humidity" },
      [temp       |-> { PyInt(0), PyFloat(215) },
       feels_like |-> { PyFloat(0), PyFloat(-35) },
       humidity   |-> { PyInt(0), PyInt(40) }])

WindObjects == { None } \cup DictsOver({ "speed" }, [speed |-> { PyInt(0), PyFloat(32) }])

WeatherLists ==
  { PyList(<< >>), PyList(<< EmptyDict >>),
    PyList(<< PyDict([description |-> None]) >>),
    PyList(<< PyDict([description |-> Str1("clear sky"), icon |-> Str1("01d")]) >>) }

SysObjects == { None, PyDict([country |-> Str1("KZ")]) }

CurrentPayloads ==
  DictsOver({ "name", "sys", "weather", "main", "wind" },
    [name    |-> { Str1("Almaty") },
     sys     |-> SysObjects,
     weather |-> WeatherLists,
     main    |-> MainObjects,
     wind    |-> WindObjects])

\* What the current-weather endpoint can answer a fetcher call with.
CurrentResponses ==
  ErrorResponses
    \cup { HttpResponse(200, b) : b \in ErrorBodies }
    \cup { HttpResponse(200, JsonBody(AlmatyPayload)) }

\* What it can answer with when the panel is rendered from it.
PayloadResponses == { HttpResponse(200, JsonBody(c)) : c \in CurrentPayloads }

\* Forecast entries: dt and dt_txt always, main / wind / weather absent,
\* null, empty or filled.
ForecastEntries ==
  { PyDict(f @@ [dt |-> PyInt(86400), dt_txt |-> Str1("1970-01-02 00:00:00")]) :
      f \in { g.f : g \in DictsOver({ "main", "wind", "weather" },
        [main    |-> { None, EmptyDict,
                       PyDict([temp |-> PyFloat(215), feels_like |-> PyFloat(203),
                               humidity |-> PyInt(40)]) },
         wind    |-> { PyDict([speed |-> PyFloat(32)]) },
         weather |-> { PyList(<< >>),
                       PyList(<< PyDict([description |-> Str1("clear sky")]) >>) }]) } }

EntryLists == UNION { [1..n -> ForecastEntries] : n \in 0..MaxEntries }

ForecastBodies ==
  { JsonBody(PyDict([list |-> PyList(l)])) : l \in EntryLists }
    \cup { JsonBody(PyDict([list |-> None])), JsonBody(PyDict([cod |-> Str1("200")])) }

ForecastResponses ==
  ErrorResponses
    \cup { HttpResponse(200, b) : b \in ErrorBodies }
    \cup { HttpResponse(200, b) : b \in ForecastBodies }

FullEntry ==
  PyDict([dt |-> PyInt(86400), dt_txt |-> Str1("1970-01-02 00:00:00"),
          main |-> PyDict([temp |-> PyFloat(215), feels_like |-> PyFloat(203),
                           humidity |-> PyInt(40)]),
          wind |-> PyDict([speed |-> PyFloat(32)]),
          weather |-> PyList(<< PyDict([description |-> Str1("clear sky")]) >>)])

BareEntry == PyDict([dt |-> PyInt(86400), dt_txt |-> Str1("1970-01-02 00:00:00")])

CityNotFound == HttpResponse(404, JsonBody(PyDict([cod |-> Str1("404"), message |-> Str1("city not found")])))

\* A few answers of each kind, for the runs of several passes.
CoreCurrentResponses ==
  { TransportFailure("ReadTimeout"), CityNotFound,
    HttpResponse(200, JsonBody(AlmatyPayload)),
    HttpResponse(200, JsonBody(None)) }

CoreForecastResponses ==
  { TransportFailure("ReadTimeout"), CityNotFound,
    HttpResponse(200, JsonBody(PyDict([list |-> PyList(<< >>)]))),
    HttpResponse(200, JsonBody(PyDict([list |-> PyList(<< FullEntry >>)]))),
    HttpResponse(200, JsonBody(PyDict([list |-> PyList(<< BareEntry >>)]))) }

SecretsValues == { SecretsRaises, None, PyStrOf(<< >>), Str1("key-secrets") }

EnvValues == { None, PyStrOf(<< >>), Str1("key-env") }

UiValues == { PyStrOf(<< >>), Str1("key-ui") }

Cities == { "Almaty", "Nowhere" }

UnitSystems == { "metric", "imperial" }

Languages == { "ru", "en" }

(* -------------------------------- state -------------------------------- *)

VARIABLES
  secrets,      \* what st.secrets.get("OPENWEATHER_API_KEY") yields in this process
  env,          \* what os.getenv("OPENWEATHER_API_KEY") yields in this process
  cacheCur,     \* st.cache_data of fetch_current_weather: {[key, val]}
  cacheFc,      \* st.cache_data of fetch_forecast
  netCur,       \* bag of the parameter tuples GET /weather was issued for
  netFc,        \* bag of the parameter tuples GET /forecast was issued for
  calls,        \* every fetcher call that ended: {[fn, key, hit, resp, out]}
  pass,         \* number of the render pass (script run)
  pc,           \* where main() stands
  city, units_label, lang,   \* the sidebar widgets' values in this pass
  ui_key,       \* the masked text input's value, NotShown if it is not shown
  api_key, from_secrets,
  consulted,    \* the credential sources read in this pass, in order
  warning,      \* the missing-key warning is on the page
  curRet,       \* what fetch_current_weather ended with in this pass
  fcRet,        \* what fetch_forecast ended with in this pass
  curPanel,     \* the current-conditions column
  fcPanel,      \* the forecast column
  exc           \* the exception that ended the pass ("" when none)

process == << secrets, env, cacheCur, cacheFc, netCur, netFc, calls, pass >>

locals == << city, units_label, lang, ui_key, api_key, from_secrets, consulted,
             warning, curRet, fcRet, curPanel, fcPanel, exc >>

vars == << process, pc, locals >>

NoCall == [kind |-> "none"]

\* The arguments of a fetcher call: the key st.cache_data hashes.
CallKey == [city |-> city, api_key |-> api_key, units |-> units_label, lang |-> lang]

\* st.cache_data: a value is stored when the function returns; a call that
\* raises stores nothing.
CacheHit(cache, key) == \E e \in cache : e.key = key

CacheValue(cache, key) == (CHOOSE e \in cache : e.key = key).val

CacheStore(cache, key, out) ==
  IF out.kind = "return" THEN cache \cup { [key |-> key, val |-> out] } ELSE cache

\* The state main() starts a pass in.
StartOfPass(c, u, l) ==
  /\ pc' = "sidebar"
  /\ city' = c /\ units_label' = u /\ lang' = l
  /\ ui_key' = NotShown /\ api_key' = None /\ from_secrets' = FALSE
  /\ consulted' = << >> /\ warning' = FALSE
  /\ curRet' = NoCall /\ fcRet' = NoCall
  /\ curPanel' = BlankCurrentPanel /\ fcPanel' = BlankForecastPanel
  /\ exc' = ""

\* `if api_key is None` in the place of line 116.
KeyIsNone(key) == IsNone(key)

\* Line 116: the guard that stops the pass.
KeyMissing(key) == ~Truthy(key)

\* Lines 108-118: the sidebar, the credential resolver and the guard.
KeyStep ==
  /\ pc = "sidebar"
  /\ \E ui \in UiValues :
       LET r == get_api_key_from_env_or_ui(secrets, env, ui)
       IN  /\ api_key' = r.api_key
           /\ from_secrets' = r.from_secrets
           /\ consulted' = r.consulted
           /\ ui_key' = IF "ui" \in Range(r.consulted) THEN ui ELSE NotShown
           /\ warning' = KeyMissing(r.api_key)
           /\ pc' = IF KeyMissing(r.api_key) THEN "stopped" ELSE "col1"
  /\ UNCHANGED << process, city, units_label, lang, curRet, fcRet, curPanel, fcPanel, exc >>

\* Line 124: the memoized call of fetch_current_weather.
FetchCurrentStep(responses) ==
  /\ pc = "col1"
  /\ IF CacheHit(cacheCur, CallKey)
     THEN /\ curRet' = CacheValue(cacheCur, CallKey)
          /\ calls' = calls \cup { [fn |-> "current", key |-> CallKey, hit |-> TRUE,
                                    resp |-> NoCall, out |-> curRet'] }
          /\ UNCHANGED << cacheCur, netCur >>
     ELSE \E resp \in responses : \E out \in fetch_current_weather(resp) :
            /\ netCur' = netCur (+) SetToBag({ CallKey })
            /\ curRet' = out
            /\ cacheCur' = CacheStore(cacheCur, CallKey, out)
            /\ calls' = calls \cup { [fn |-> "current", key |-> CallKey, hit |-> FALSE,
                                      resp |-> resp, out |-> out] }
  /\ exc' = IF curRet'.kind = "raise" THEN curRet'.exc ELSE ""
  /\ pc' = IF curRet'.kind = "raise" THEN "failed" ELSE "col1_render"
  /\ UNCHANGED << secrets, env, cacheFc, netFc, pass, city, units_label, lang, ui_key,
                  api_key, from_secrets, consulted, warning, fcRet, curPanel, fcPanel >>

\* Lines 123, 125-152: the current-conditions column.
RenderCurrentStep ==
  /\ pc = "col1_render"
  /\ LET r == RenderCurrent(curRet.payload, curRet.error, units_label)
     IN  /\ curPanel' = r.panel
         /\ exc' = r.exc
         /\ pc' = IF r.exc = "" THEN "col2" ELSE "failed"
  /\ UNCHANGED << process, city, units_label, lang, ui_key, api_key, from_secrets,
                  consulted, warning, curRet, fcRet, fcPanel >>

\* Line 156: the memoized call of fetch_forecast.
FetchForecastStep(responses) ==
  /\ pc = "col2"
  /\ IF CacheHit(cacheFc, CallKey)
     THEN /\ fcRet' = CacheValue(cacheFc, CallKey)
          /\ calls' = calls \cup { [fn |-> "forecast", key |-> CallKey, hit |-> TRUE,
                                    resp |-> NoCall, out |-> fcRet'] }
          /\ UNCHANGED << cacheFc, netFc >>
     ELSE \E resp \in responses : \E out \in fetch_forecast(resp) :
            /\ netFc' = netFc (+) SetToBag({ CallKey })
            /\ fcRet' = out
            /\ cacheFc' = CacheStore(cacheFc, CallKey, out)
            /\ calls' = calls \cup { [fn |-> "forecast", key |-> CallKey, hit |-> FALSE,
                                      resp |-> resp, out |-> out] }
  /\ exc' = IF fcRet'.kind = "raise" THEN fcRet'.exc ELSE ""
  /\ pc' = IF fcRet'.kind = "raise" THEN "failed" ELSE "col2_render"
  /\ UNCHANGED << secrets, env, cacheCur, netCur, pass, city, units_label, lang, ui_key,
                  api_key, from_secrets, consulted, warning, curRet, curPanel, fcPanel >>

\* Lines 155, 157-209: the forecast column and the footer.
RenderForecastStep ==
  /\ pc = "col2_render"
  /\ LET r == RenderForecast(fcRet.payload, fcRet.error)
     IN  /\ fcPanel' = r.panel
         /\ exc' = r.exc
         /\ pc' = IF r.exc = "" THEN "done" ELSE "failed"
  /\ UNCHANGED << process, city, units_label, lang, ui_key, api_key, from_secrets,
                  consulted, warning, curRet, fcRet, curPanel >>

PassEnded == pc \in { "done", "stopped", "failed" }

\* A widget change or a reload: Streamlit runs main() again in the same
\* process, the caches kept.
Rerun ==
  /\ PassEnded
  /\ pass < MaxPasses
  /\ pass' = pass + 1
  /\ \E c \in Cities, u \in UnitSystems, l \in Languages : StartOfPass(c, u, l)
  /\ UNCHANGED << secrets, env, cacheCur, cacheFc, netCur, netFc, calls >>

\* A fresh process: nothing cached, nothing requested.
FreshProcess ==
  /\ cacheCur = { } /\ cacheFc = { }
  /\ netCur = EmptyBag /\ netFc = EmptyBag
  /\ calls = { }
  /\ pass = 1

FirstPass(c, u, l) ==
  /\ pc = "sidebar"
  /\ city = c /\ units_label = u /\ lang = l
  /\ ui_key = NotShown /\ api_key = None /\ from_secrets = FALSE
  /\ consulted = << >> /\ warning = FALSE
  /\ curRet = NoCall /\ fcRet = NoCall
  /\ curPanel = BlankCurrentPanel /\ fcPanel = BlankForecastPanel
  /\ exc = ""

\* The server process over its render passes.
Init ==
  /\ secrets \in SecretsValues /\ env \in EnvValues
  /\ FreshProcess
  /\ \E c \in Cities, u \in UnitSystems, l \in Languages : FirstPass(c, u, l)

Next ==
  \/ KeyStep
  \/ FetchCurrentStep(CoreCurrentResponses)
  \/ RenderCurrentStep
  \/ FetchForecastStep(CoreForecastResponses)
  \/ RenderForecastStep
  \/ Rerun

Spec == Init /\ [][Next]_vars

\* One render pass, over every configuration of the credential sources.
InitPass ==
  /\ secrets \in SecretsValues /\ env \in EnvValues
  /\ FreshProcess
  /\ \E u \in UnitSystems : FirstPass("Almaty", u, "ru")

NextPass ==
  \/ KeyStep
  \/ FetchCurrentStep(CoreCurrentResponses)
  \/ RenderCurrentStep
  \/ FetchForecastStep(CoreForecastResponses)
  \/ RenderForecastStep

SpecPass == InitPass /\ [][NextPass]_vars

\* One render pass over every current-weather payload.
InitRender ==
  /\ secrets = Str1("key-secrets") /\ env = None
  /\ FreshProcess
  /\ \E u \in UnitSystems : FirstPass("Almaty", u, "ru")

NextRender ==
  \/ KeyStep
  \/ FetchCurrentStep(PayloadResponses)
  \/ RenderCurrentStep
  \/ FetchForecastStep(CoreForecastResponses)
  \/ RenderForecastStep

SpecRender == InitRender /\ [][NextRender]_vars

\* A direct call of one fetcher, over every response of its endpoint: the
\* caller stands before line 124 or before line 156 with a key.
InitFetch ==
  /\ secrets = Str1("key-secrets") /\ env = None
  /\ FreshProcess
  /\ pc \in { "col1", "col2" }
  /\ city = "Almaty" /\ units_label = "metric" /\ lang = "ru"
  /\ ui_key = NotShown /\ api_key = Str1("key-secrets") /\ from_secrets = TRUE
  /\ consulted = << "secrets" >> /\ warning = FALSE
  /\ curRet = NoCall /\ fcRet = NoCall
  /\ curPanel = BlankCurrentPanel /\ fcPanel = BlankForecastPanel
  /\ exc = ""

NextFetch ==
  \/ FetchCurrentStep(CurrentResponses)
  \/ FetchForecastStep(ForecastResponses)

SpecFetch == InitFetch /\ [][NextFetch]_vars

(* ------------------------------- claims -------------------------------- *)

\* The fetcher calls that went to the network, with the response they got.
NetworkCalls(fn) == { c \in calls : c.fn = fn /\ ~c.hit }

NonEmptyStr(v) == v.t = "str" /\ Len(v.s) > 0

\* C1 (as claimed): every pair fetch_current_weather returns has exactly one
\* None component: a payload with no error, or no payload with a non-empty
\* error string.
C1_ExactlyOneNone ==
  \A c \in NetworkCalls("current") :
    c.out.kind = "return" =>
      \/ ~IsNone(c.out.payload) /\ IsNone(c.out.error)
      \/ IsNone(c.out.payload) /\ NonEmptyStr(c.out.error)

\* The entry list of a 200 forecast response whose body is an object.
Is200Object(resp) ==
  resp.r = "http" /\ resp.status = 200 /\ resp.body.b = "json" /\ IsDict(resp.body.val)

HasEntries(resp) ==
  /\ Is200Object(resp)
  /\ HasKey(resp.body.val, "list")
  /\ IsList(resp.body.val.f["list"])
  /\ Len(resp.body.val.f["list"].items) > 0

\* C2 (as claimed): for a 200 response with a non-empty entry list, whatever
\* sub-objects the entries lack, fetch_forecast returns a table that holds
\* the five guaranteed columns and never ends with an exception.
C2_FiveColumnsAlways ==
  \A c \in NetworkCalls("forecast") :
    HasEntries(c.resp) =>
      /\ c.out.kind = "return"
      /\ c.out.payload.t = "table"
      /\ GuaranteedColumns \subseteq c.out.payload.columns

EmptyList(resp) ==
  /\ Is200Object(resp)
  /\ \/ ~HasKey(resp.body.val, "list")
     \/ IsNone(resp.body.val.f["list"])
     \/ resp.body.val.f["list"] = PyList(<< >>)

\* C3: a 200 response whose entry list is [], absent or null yields exactly
\* (None, "Empty forecast list from API"), and fetch_forecast never returns
\* a table of zero rows with a None error.
C3_EmptyListIsAnError ==
  \A c \in NetworkCalls("forecast") :
    /\ EmptyList(c.resp) =>
         /\ c.out.kind = "return"
         /\ IsNone(c.out.payload)
         /\ c.out.error = [t |-> "str", s |-> << "Empty forecast list from API" >>]
    /\ (c.out.kind = "return" /\ IsNone(c.out.error)) =>
         (c.out.payload.t = "table" /\ Len(c.out.payload.rows) > 0)

C3_Witness ==
  \E c \in NetworkCalls("forecast") :
    /\ c.resp = HttpResponse(200, JsonBody(PyDict([list |-> PyList(<< >>)])))
    /\ c.out.kind = "return" /\ IsNone(c.out.payload) /\ NonEmptyStr(c.out.error)

\* C4 (as claimed): per endpoint at most one request goes out for each
\* (city, key, units, language) tuple; two calls with the same tuple end with
\* equal results, the later one served without a request; a call with a
\* tuple not seen before issues one.
C4_OneRequestPerTuple ==
  /\ \A k \in BagToSet(netCur) : CopiesIn(k, netCur) <= 1
  /\ \A k \in BagToSet(netFc) : CopiesIn(k, netFc) <= 1
  /\ \A c1, c2 \in calls : (c1.fn = c2.fn /\ c1.key = c2.key) => c1.out = c2.out
  /\ \A c \in calls :
       c.hit <=> \E e \in calls : e # c /\ ~e.hit /\ e.fn = c.fn /\ e.key = c.key

HasMessage(resp) ==
  /\ resp.body.b = "json" /\ IsDict(resp.body.val)
  /\ HasKey(resp.body.val, "message")
  /\ NonEmptyStr(resp.body.val.f["message"])

\* C5: for both fetchers a non-200 status S yields (None, "HTTP S: M"), M the
\* message of the error body when the body holds one and the raw response
\* text when the body is not JSON; 404 with {"message": "city not found"}
\* yields "HTTP 404: city not found".
C5_HttpErrorMessage ==
  \A c \in NetworkCalls("current") \cup NetworkCalls("forecast") :
    (c.resp.r = "http" /\ c.resp.status # 200) =>
      /\ c.out.kind = "return"
      /\ IsNone(c.out.payload)
      /\ c.out.error.t = "str"
      /\ SubSeq(c.out.error.s, 1, Len(NatDigits(c.resp.status)) + 2)
           = << "HTTP " >> \o NatDigits(c.resp.status) \o << ": " >>
      /\ HasMessage(c.resp) =>
           c.out.error.s = << "HTTP " >> \o NatDigits(c.resp.status) \o << ": " >>
                             \o c.resp.body.val.f["message"].s
      /\ c.resp.body.b = "invalid" =>
           c.out.error.s = << "HTTP " >> \o NatDigits(c.resp.status) \o << ": " >>
                             \o c.resp.body.text
      /\ c.resp = CityNotFound =>
           c.out.error.s = << "HTTP ", "4", "0", "4", ": ", "city not found" >>

C5_Witness ==
  \E c \in NetworkCalls("forecast") :
    /\ c.resp = CityNotFound
    /\ c.out = Return(None, PyStrOf(<< "HTTP ", "4", "0", "4", ": ", "city not found" >>))

IsKey(v) == v \notin { SecretsRaises, None } /\ NonEmptyStr(v)

\* C6: the resolver reads the secrets store, then the environment, then the
\* text input; it returns the first non-empty value in that order and reads
\* no source after it; a secrets lookup that raises counts as empty.
C6_FirstNonEmptySourceWins ==
  pc # "sidebar" =>
    /\ IsKey(secrets) =>
         api_key = secrets /\ consulted = << "secrets" >> /\ ui_key = NotShown
    /\ (~IsKey(secrets) /\ IsKey(env)) =>
         api_key = env /\ consulted = << "secrets", "env" >> /\ ui_key = NotShown
    /\ (~IsKey(secrets) /\ ~IsKey(env)) =>
         api_key = ui_key /\ consulted = << "secrets", "env", "ui" >>

C6_Witness ==
  /\ pc = "col1" /\ secrets = SecretsRaises /\ IsKey(env)
  /\ api_key = env /\ consulted = << "secrets", "env" >>

\* C7: a pass that resolves no non-empty key shows the warning and stops; no
\* fetcher is called and no request goes out without a non-empty key.
C7_NoFetchWithoutKey ==
  /\ \A c \in calls : NonEmptyStr(c.key.api_key)
  /\ \A k \in BagToSet(netCur) \cup BagToSet(netFc) : NonEmptyStr(k.api_key)
  /\ (pc # "sidebar" /\ ~NonEmptyStr(api_key)) =>
       /\ pc = "stopped" /\ warning
       /\ curRet = NoCall /\ fcRet = NoCall
       /\ curPanel = BlankCurrentPanel /\ fcPanel = BlankForecastPanel

C7_Witness ==
  /\ pc = "stopped" /\ warning /\ consulted = << "secrets", "env", "ui" >>
  /\ ui_key = PyStrOf(<< >>) /\ calls = { }

\* C8 (as claimed): in a pass with a key, whatever the current-conditions
\* fetch returned and whatever its payload lacks or holds as null, the
\* forecast fetch is still issued in that pass.
C8_ForecastAlwaysFetched ==
  (pc \in { "done", "failed" } /\ curRet.kind = "return") => fcRet # NoCall

\* C9: for both fetchers a transport failure of the GET is returned as
\* (None, "Network error: <details>"), never raised.
C9_TransportFailureReturned ==
  \A c \in NetworkCalls("current") \cup NetworkCalls("forecast") :
    c.resp.r = "fail" =>
      /\ c.out.kind = "return"
      /\ IsNone(c.out.payload)
      /\ c.out.error.t = "str"
      /\ c.out.error.s = << "Network error: ", c.resp.exc >>

C9_Witness ==
  \E c \in NetworkCalls("forecast") :
    /\ c.resp = TransportFailure("ConnectTimeout")
    /\ c.out = Return(None, PyStrOf(<< "Network error: ", "ConnectTimeout" >>))

\* The numeric fields of the payload the panel was rendered from.
ShownField(obj, k) ==
  LET o == IF HasKey(curRet.payload, obj) THEN curRet.payload.f[obj] ELSE EmptyDict
  IN  IF HasKey(o, k) THEN o.f[k] ELSE None

MetricShown == curPanel.value # Unrendered

TempLabel == IF units_label = "metric" THEN "(deg)C" ELSE "(deg)F"

SpeedLabel == IF units_label = "metric" THEN "m/s (cyr)" ELSE "mph"

\* The slots of temperature, humidity and wind speed: the em dash when the
\* value is absent, the value and its unit label when it is present.
C10_ThreeSlots ==
  /\ curPanel.value.s =
       (IF IsNone(ShownField("main", "temp")) THEN << "--" >>
        ELSE NumStr(ShownField("main", "temp")) \o << " ", TempLabel >>)
  /\ curPanel.humidity.s =
       (IF IsNone(ShownField("main", "humidity")) THEN << "Vlazhnost': ", "--" >>
        ELSE << "Vlazhnost': " >> \o NumStr(ShownField("main", "humidity")) \o << "%" >>)
  /\ curPanel.wind.s =
       (IF IsNone(ShownField("wind", "speed")) THEN << "Veter: ", "--" >>
        ELSE << "Veter: " >> \o NumStr(ShownField("wind", "speed")) \o << " ", SpeedLabel >>)
  /\ (curRet.payload = AlmatyPayload /\ units_label = "metric") =>
       /\ curPanel.value.s = << "2", "1", ".", "5", " ", "(deg)C" >>
       /\ curPanel.humidity.s = << "Vlazhnost': ", "4", "0", "%" >>
       /\ curPanel.wind.s = << "Veter: ", "3", ".", "2", " ", "m/s (cyr)" >>

FeelsShown ==
  curPanel.delta = PyStrOf(<< "Oshchushchaetsya kak " >>
                             \o NumStr(ShownField("main", "feels_like")) \o << " ", TempLabel >>)

\* C10 (as claimed): in a rendered panel every absent numeric value, the
\* feels-like temperature included, shows as the em dash in its slot, and
\* every present one shows with its unit label.
C10_EveryAbsentValueIsDash ==
  MetricShown =>
    /\ C10_ThreeSlots
    /\ IF IsNone(ShownField("main", "feels_like"))
       THEN curPanel.delta.t = "str" /\ "--" \in Range(curPanel.delta.s)
       ELSE FeelsShown

\* C10 (amended): an absent temperature, humidity or wind speed shows as the
\* em dash; an absent feels-like temperature leaves the metric without a
\* delta (None); every present value shows with its unit label.
C10_AbsentFeelsLikeHasNoDelta ==
  MetricShown =>
    /\ C10_ThreeSlots
    /\ IF IsNone(ShownField("main", "feels_like")) THEN curPanel.delta = None
       ELSE FeelsShown

C10_Witness ==
  /\ MetricShown /\ units_label = "metric"
  /\ IsNone(ShownField("main", "feels_like")) /\ curPanel.delta = None
  /\ ShownField("main", "temp") = PyInt(0)
  /\ curPanel.value = PyStrOf(<< "0", " ", "(deg)C" >>)
  /\ curPanel.wind = PyStrOf(<< "Veter: ", "--" >>)

=============================================================================
